---- MODULE Spec2Model ----
\* A model of src/index.js: the Express relay between a browser client and the
\* Spotify Web API (OAuth code exchange, token refresh, nine bearer-protected
\* forwarding routes).  Strings the code inspects (the Authorization header,
\* query values, credentials) are sequences of one-character strings, so that
\* startsWith, split, stringify, escape and base64 are computed, not assumed.
EXTENDS Integers, Sequences, FiniteSets, TLC

VARIABLES pc, req, accessToken, sent, reply, res

vars == <<pc, req, accessToken, sent, reply, res>>

----------------------------------------------------------------------------
\* Bounds and input domains

\* number of requests that may be in flight at the same time
NReq == 2

Slots == 1..NReq

\* the JavaScript value undefined (no header, no query parameter)
Undefined == <<"undefined">>

\* the JavaScript value null
Null == <<"null">>

\* values a caller uses as bearer tokens, authorization codes, refresh tokens
Tokens == {<<"a">>, <<"b">>}

\* path identifiers a caller supplies for :id
Ids == {<<"x">>, <<"y">>}

----------------------------------------------------------------------------
\* JavaScript string primitives

\* !v for the values a header or a query parameter can hold
Falsy(v) == v = Undefined \/ v = Null \/ v = <<>>

\* String.prototype.startsWith
StartsWith(s, p) == Len(s) >= Len(p) /\ SubSeq(s, 1, Len(p)) = p

\* String.prototype.split with a one-character separator
RECURSIVE Split(_, _)
Split(s, sep) ==
  IF \E i \in 1..Len(s) : s[i] = sep
  THEN LET i == CHOOSE k \in 1..Len(s) :
                  s[k] = sep /\ \A j \in 1..(k - 1) : s[j] # sep
       IN  <<SubSeq(s, 1, i - 1)>> \o Split(SubSeq(s, i + 1, Len(s)), sep)
  ELSE <<s>>

\* a[i] of a JavaScript array: undefined past the end
At(a, i) == IF i + 1 <= Len(a) THEN a[i + 1] ELSE Undefined

\* s contains sub as a contiguous substring
Contains(s, sub) ==
  \E i \in 1..(Len(s) - Len(sub) + 1) : SubSeq(s, i, i + Len(sub) - 1) = sub

\* querystring.escape on the characters of the model: a space becomes %20
RECURSIVE Escape(_)
Escape(s) ==
  IF s = <<>> THEN <<>>
  ELSE (IF Head(s) = " " THEN <<"%", "2", "0">> ELSE <<Head(s)>>) \o Escape(Tail(s))

\* querystring.stringify of one value: undefined and null become the empty string
StringifyValue(v) == IF v = Undefined \/ v = Null THEN <<>> ELSE Escape(v)

\* querystring.stringify of an object given as a sequence of <<key, value>>
Stringify(obj) == [i \in 1..Len(obj) |-> <<obj[i][1], StringifyValue(obj[i][2])>>]

\* the value of key k in a stringified query; Undefined when k is not in it
Param(qs, k) ==
  IF \E i \in 1..Len(qs) : qs[i][1] = k
  THEN qs[CHOOSE i \in 1..Len(qs) : qs[i][1] = k][2]
  ELSE Undefined

\* Buffer.from(s).toString("base64") ------------------------------------------

AsciiTable == [c \in {"i", "d", "s", "e", "c", ":"} |->
  CASE c = "i" -> 105 [] c = "d" -> 100 [] c = "s" -> 115
    [] c = "e" -> 101 [] c = "c" -> 99  [] c = ":" -> 58]

B64Alphabet ==
  <<"A","B","C","D","E","F","G","H","I","J","K","L","M","N","O","P",
    "Q","R","S","T","U","V","W","X","Y","Z","a","b","c","d","e","f",
    "g","h","i","j","k","l","m","n","o","p","q","r","s","t","u","v",
    "w","x","y","z","0","1","2","3","4","5","6","7","8","9","+","/">>

RECURSIVE Base64(_)
Base64(s) ==
  LET b(i) == IF i <= Len(s) THEN AsciiTable[s[i]] ELSE 0
      n    == b(1) * 65536 + b(2) * 256 + b(3)
      c(k) == B64Alphabet[((n \div (64 ^ (3 - k))) % 64) + 1]
  IN  IF s = <<>> THEN <<>>
      ELSE IF Len(s) = 1 THEN <<c(0), c(1), "=", "=">>
      ELSE IF Len(s) = 2 THEN <<c(0), c(1), c(2), "=">>
      ELSE <<c(0), c(1), c(2), c(3)>> \o Base64(SubSeq(s, 4, Len(s)))

----------------------------------------------------------------------------
\* Configuration read from the environment at start-up

clientId == <<"i", "d">>

clientSecret == <<"s", "e", "c">>

redirectUri == <<"https://backend/auth/callback">>

frontendUrl == "http://localhost:5173"

AuthorizeUrl == "https://accounts.spotify.com/authorize"

TokenUrl == "https://accounts.spotify.com/api/token"

scopes ==
  <<"user-read-private", " ", "user-follow-read", " ", "user-read-email", " ",
    "playlist-read-private", " ", "user-library-read", " ",
    "user-read-recently-played", " ", "user-top-read">>

\* "Basic " + Buffer.from(`${clientId}:${clientSecret}`).toString("base64")
BasicAuthorization ==
  <<"B", "a", "s", "i", "c", " ">> \o Base64(clientId \o <<":">> \o clientSecret)

BearerPrefix == <<"B", "e", "a", "r", "e", "r", " ">>

----------------------------------------------------------------------------
\* Records of the model

NoJson == [absent |-> TRUE]

NoLocation == [base |-> "", query |-> <<>>]

NoQuery == [code |-> Undefined, refresh_token |-> Undefined,
            time_range |-> Undefined, market |-> Undefined]

NoReq == [route |-> "", authorization |-> Undefined, query |-> NoQuery, id |-> Undefined]

NoRes == [status |-> 0, kind |-> "none", text |-> "", json |-> NoJson, location |-> NoLocation]

NoReply == [kind |-> "none", status |-> 0, data |-> NoJson]

\* res.status(n).send(text)
Send(n, text) ==
  [status |-> n, kind |-> "send", text |-> text, json |-> NoJson, location |-> NoLocation]

\* res.json(data)
Json(data) ==
  [status |-> 200, kind |-> "json", text |-> "", json |-> data, location |-> NoLocation]

\* res.redirect(`${base}?${query}`), or res.redirect(base) with query <<>>
Redirect(base, query) ==
  [status |-> 302, kind |-> "redirect", text |-> "", json |-> NoJson,
   location |-> [base |-> base, query |-> query]]

----------------------------------------------------------------------------
\* The provider (accounts.spotify.com, api.spotify.com) as the code sees it
\* through axios: a reply is a response with a status, or no response at all.

\* the authorization codes and refresh tokens the provider accepts
ValidGrants == {<<"a">>}

IssuedTokens ==
  [access_token |-> <<"A", "T">>, refresh_token |-> <<"R", "T">>,
   expires_in |-> <<"3", "6", "0", "0">>]

NetworkError == [kind |-> "error", status |-> 0, data |-> [message |-> "ECONNRESET"]]

Response(status, data) == [kind |-> "response", status |-> status, data |-> data]

\* POST /api/token: a valid grant is answered 200 with tokens, any other grant
\* with 400 invalid_grant (or, for the sake of the status test of the callback,
\* a 2xx that is not 200); the connection may fail for any call
TokenReplies(call) ==
  LET grant == IF Param(call.data, "grant_type") = <<"authorization_code">>
               THEN Param(call.data, "code")
               ELSE Param(call.data, "refresh_token")
  IN  (IF grant \in ValidGrants /\ call.authorization = BasicAuthorization
       THEN {Response(200, IssuedTokens)}
       ELSE {Response(400, [error |-> "invalid_grant"]),
             Response(204, [error |-> "no content"])})
      \cup {NetworkError}

\* GET api.spotify.com/v1/...: 200 with the resource the call names as seen by
\* the bearer of the call, or 401 for a token the provider rejects, or no answer
ResourceReplies(call) ==
  {Response(200, [resource |-> call.url, query |-> call.query,
                  bearer |-> call.authorization]),
   Response(401, [error |-> "The access token expired"]),
   NetworkError}

\* obj.k of a JavaScript object: undefined when the object has no such property
Field(obj, k) == IF k \in DOMAIN obj THEN obj[k] ELSE Undefined

\* axios rejects the promise when there is no response or when validateStatus
\* (status >= 200 && status < 300) fails
AxiosRejects(rep) == rep.kind = "error" \/ ~(rep.status >= 200 /\ rep.status < 300)

\* the upstream call a request has in flight
CallOf(r) == CHOOSE c \in sent : c.slot = r

Post(r, url, data) ==
  [slot |-> r, method |-> "post", url |-> [path |-> url, id |-> Undefined],
   query |-> <<>>, data |-> data, authorization |-> BasicAuthorization]

----------------------------------------------------------------------------
\* Authorization flow

TypeOK ==
  /\ pc \in [Slots -> {"idle", "await", "done"}]
  /\ DOMAIN req = Slots /\ DOMAIN res = Slots /\ DOMAIN reply = Slots
  /\ DOMAIN accessToken = Slots
  /\ \A c \in sent : c.slot \in Slots

Init ==
  /\ pc = [r \in Slots |-> "idle"]
  /\ req = [r \in Slots |-> NoReq]
  /\ accessToken = [r \in Slots |-> Undefined]
  /\ sent = {}
  /\ reply = [r \in Slots |-> NoReply]
  /\ res = [r \in Slots |-> NoRes]

\* a handler that answers without awaiting anything
Answer(r, q, response) ==
  /\ pc[r] = "idle"
  /\ req' = [req EXCEPT ![r] = q]
  /\ res' = [res EXCEPT ![r] = response]
  /\ pc' = [pc EXCEPT ![r] = "done"]

\* a handler that issues an upstream call and awaits its outcome
Await(r, q, call) ==
  /\ pc[r] = "idle"
  /\ req' = [req EXCEPT ![r] = q]
  /\ sent' = sent \cup {call}
  /\ pc' = [pc EXCEPT ![r] = "await"]

\* the awaited call settles with rep and the handler answers
Settle(r, rep, response) ==
  /\ reply' = [reply EXCEPT ![r] = rep]
  /\ res' = [res EXCEPT ![r] = response]
  /\ pc' = [pc EXCEPT ![r] = "done"]

LoginQueryMutantWithSecret ==
  Stringify(<<<<"response_type", <<"code">>>>, <<"client_id", clientId>>,
              <<"client_secret", clientSecret>>,
              <<"scope", scopes>>, <<"redirect_uri", redirectUri>>,
              <<"show_dialog", <<"true">>>>>>)

LoginQuery ==
  Stringify(<<<<"response_type", <<"code">>>>, <<"client_id", clientId>>,
              <<"scope", scopes>>, <<"redirect_uri", redirectUri>>,
              <<"show_dialog", <<"true">>>>>>)

\* GET /auth/login
AuthLogin(r, q) ==
  /\ q.route = "/auth/login"
  /\ Answer(r, q, Redirect(AuthorizeUrl, LoginQuery))
  /\ UNCHANGED <<accessToken, sent, reply>>

\* const code = req.query.code || null
CallbackCode(q) == IF Falsy(q.query.code) THEN Null ELSE q.query.code

\* if (!code)
NoCodeMutantAbsentOnly(q) == q.query.code = Undefined

NoCode(q) == Falsy(CallbackCode(q))

\* the redirect of a 200 token response
TokenRedirectMutantNoRefresh(data) ==
  Redirect(frontendUrl,
           Stringify(<<<<"access_token", Field(data, "access_token")>>,
                       <<"expires_in", Field(data, "expires_in")>>>>))

TokenRedirect(data) ==
  Redirect(frontendUrl,
           Stringify(<<<<"access_token", Field(data, "access_token")>>,
                       <<"refresh_token", Field(data, "refresh_token")>>,
                       <<"expires_in", Field(data, "expires_in")>>>>))

\* GET /auth/callback, up to the await of the token exchange
AuthCallback(r, q) ==
  /\ q.route = "/auth/callback"
  /\ LET code == CallbackCode(q)
     IN  IF NoCode(q)
         THEN /\ Answer(r, q, Redirect(frontendUrl, <<>>))
              /\ UNCHANGED sent
         ELSE /\ Await(r, q, Post(r, TokenUrl,
                   Stringify(<<<<"grant_type", <<"authorization_code">>>>,
                               <<"code", code>>,
                               <<"redirect_uri", redirectUri>>>>)))
              /\ UNCHANGED res
  /\ UNCHANGED <<accessToken, reply>>

\* GET /auth/callback, from the outcome of the token exchange on
AuthCallbackResume(r) ==
  /\ pc[r] = "await"
  /\ req[r].route = "/auth/callback"
  /\ \E rep \in TokenReplies(CallOf(r)) :
       Settle(r, rep,
              IF AxiosRejects(rep) THEN Send(500, "Authentication failed")
              ELSE IF rep.status = 200 THEN TokenRedirect(rep.data)
              ELSE Redirect("/", Stringify(<<<<"error", <<"invalid", " ", "token">>>>>>)))
  /\ UNCHANGED <<req, accessToken, sent>>

\* if (!refresh_token)
MissingRefreshTokenMutantUndefinedOnly(q) == q.query.refresh_token = Undefined

MissingRefreshToken(q) == Falsy(q.query.refresh_token)

\* GET /auth/refresh_token, up to the await of the token request
AuthRefreshToken(r, q) ==
  /\ q.route = "/auth/refresh_token"
  /\ IF MissingRefreshToken(q)
     THEN /\ Answer(r, q, Send(400, "Missing refresh_token"))
          /\ UNCHANGED sent
     ELSE /\ Await(r, q, Post(r, TokenUrl,
               Stringify(<<<<"grant_type", <<"refresh_token">>>>,
                           <<"refresh_token", q.query.refresh_token>>>>)))
          /\ UNCHANGED res
  /\ UNCHANGED <<accessToken, reply>>

\* GET /auth/refresh_token, from the outcome of the token request on
AuthRefreshTokenResume(r) ==
  /\ pc[r] = "await"
  /\ req[r].route = "/auth/refresh_token"
  /\ \E rep \in TokenReplies(CallOf(r)) :
       Settle(r, rep,
              IF AxiosRejects(rep) THEN Send(500, "Failed to refresh token")
              ELSE Json([access_token |-> Field(rep.data, "access_token"),
                         expires_in |-> Field(rep.data, "expires_in")]))
  /\ UNCHANGED <<req, accessToken, sent>>

\* GET /auth/logout
AuthLogout(r, q) ==
  /\ q.route = "/auth/logout"
  /\ Answer(r, q, Redirect(frontendUrl, <<>>))
  /\ UNCHANGED <<accessToken, sent, reply>>

\* GET /
Root(r, q) ==
  /\ q.route = "/"
  /\ Answer(r, q, Send(200, "Welcome to the Spotify Backend API. Use /auth/login to start the authentication process."))
  /\ UNCHANGED <<accessToken, sent, reply>>

----------------------------------------------------------------------------
\* Resource forwarder

\* extractAccessToken: the test that answers 401
GateRejectsMutantAnyScheme(authHeader) == Falsy(authHeader)

GateRejects(authHeader) == Falsy(authHeader) \/ ~StartsWith(authHeader, BearerPrefix)

\* extractAccessToken: req.accessToken = authHeader.split(" ")[1]
ExtractToken(authHeader) == At(Split(authHeader, " "), 1)

\* makeSpotifyRequest: if (!accessToken) throw
NoAccessTokenMutantNeverThrows(token) == FALSE

NoAccessToken(token) == Falsy(token)

\* makeSpotifyRequest: the axios.get it issues
Get(r, url, token, queryParams) ==
  [slot |-> r, method |-> "get", url |-> url, query |-> Stringify(queryParams),
   data |-> <<>>, authorization |-> BearerPrefix \o token]

\* the text each protected handler sends from its catch block
FailMsg(route) ==
  CASE route = "/user/profile" -> "Failed to fetch user profile"
    [] route = "/user/playlists" -> "Failed to fetch playlists"
    [] route = "/user/top-tracks" -> "Failed to fetch top tracks"
    [] route = "/user/recently-played" -> "Failed to fetch recently played tracks"
    [] route = "/user/top-artists" -> "Failed to fetch top artists"
    [] route = "/user/following" -> "Failed to fetch following artists"
    [] route = "/artist/:id" -> "Failed to fetch artist details"
    [] route = "/artist/:id/top-tracks" -> "Failed to fetch artist top tracks"
    [] route = "/track/:id" -> "Failed to fetch track details"

ProtectedRoutes ==
  {"/user/profile", "/user/playlists", "/user/top-tracks", "/user/recently-played",
   "/user/top-artists", "/user/following", "/artist/:id", "/artist/:id/top-tracks",
   "/track/:id"}

\* extractAccessToken followed by the handler's call of makeSpotifyRequest, up
\* to the await of axios.get
Forward(r, q, url, queryParams) ==
  /\ pc[r] = "idle"
  /\ req' = [req EXCEPT ![r] = q]
  /\ IF GateRejects(q.authorization)
     THEN /\ res' = [res EXCEPT ![r] = Send(401, "Missing or invalid access token")]
          /\ pc' = [pc EXCEPT ![r] = "done"]
          /\ UNCHANGED <<accessToken, sent>>
     ELSE LET token == ExtractToken(q.authorization)
          IN  /\ accessToken' = [accessToken EXCEPT ![r] = token]
              /\ IF NoAccessToken(token)
                 THEN /\ res' = [res EXCEPT ![r] = Send(500, FailMsg(q.route))]
                      /\ pc' = [pc EXCEPT ![r] = "done"]
                      /\ UNCHANGED sent
                 ELSE /\ sent' = sent \cup {Get(r, url, token, queryParams)}
                      /\ pc' = [pc EXCEPT ![r] = "await"]
                      /\ UNCHANGED res
  /\ UNCHANGED reply

\* the handler's answer to the outcome of makeSpotifyRequest
RelayedMutantRawError(route, rep) ==
  IF rep.kind = "error" THEN Send(500, FailMsg(route)) ELSE Json(rep.data)

Relayed(route, rep) ==
  IF AxiosRejects(rep) THEN Send(500, FailMsg(route)) ELSE Json(rep.data)

\* a protected handler, from the outcome of axios.get on
Relay(r) ==
  /\ pc[r] = "await"
  /\ req[r].route \in ProtectedRoutes
  /\ \E rep \in ResourceReplies(CallOf(r)) : Settle(r, rep, Relayed(req[r].route, rep))
  /\ UNCHANGED <<req, accessToken, sent>>

Url(path, id) == [path |-> path, id |-> id]

\* GET /user/profile
UserProfile(r, q) ==
  /\ q.route = "/user/profile"
  /\ Forward(r, q, Url("/me", Undefined), <<>>)

\* GET /user/playlists
UserPlaylists(r, q) ==
  /\ q.route = "/user/playlists"
  /\ Forward(r, q, Url("/me/playlists", Undefined), <<>>)

validTimeRanges == {<<"short_term">>, <<"medium_term">>, <<"long_term">>}

\* validTimeRanges.includes(time_range) ? time_range : "medium_term"
TimeRangeMutantPassThrough(time_range) ==
  IF Falsy(time_range) THEN <<"medium_term">> ELSE time_range

TimeRange(time_range) ==
  IF time_range \in validTimeRanges THEN time_range ELSE <<"medium_term">>

\* GET /user/top-tracks
UserTopTracks(r, q) ==
  /\ q.route = "/user/top-tracks"
  /\ Forward(r, q, Url("/me/top/tracks", Undefined),
             <<<<"time_range", TimeRange(q.query.time_range)>>>>)

\* GET /user/recently-played
UserRecentlyPlayed(r, q) ==
  /\ q.route = "/user/recently-played"
  /\ Forward(r, q, Url("/me/player/recently-played", Undefined), <<>>)

\* GET /user/top-artists
UserTopArtists(r, q) ==
  /\ q.route = "/user/top-artists"
  /\ Forward(r, q, Url("/me/top/artists", Undefined),
             <<<<"time_range", TimeRange(q.query.time_range)>>>>)

\* GET /user/following
UserFollowing(r, q) ==
  /\ q.route = "/user/following"
  /\ Forward(r, q, Url("/me/following?type=artist", Undefined), <<>>)

\* GET /artist/:id
ArtistDetail(r, q) ==
  /\ q.route = "/artist/:id"
  /\ Forward(r, q, Url("/artists/:id", q.id), <<>>)

\* the query parameters of the artist top-tracks call
TopTracksParamsMutantCallerMarket(q) ==
  <<<<"market", IF Falsy(q.query.market) THEN <<"US">> ELSE q.query.market>>>>

TopTracksParams(q) == <<<<"market", <<"US">>>>>>

\* GET /artist/:id/top-tracks
ArtistTopTracks(r, q) ==
  /\ q.route = "/artist/:id/top-tracks"
  /\ Forward(r, q, Url("/artists/:id/top-tracks", q.id), TopTracksParams(q))

\* GET /track/:id
TrackDetail(r, q) ==
  /\ q.route = "/track/:id"
  /\ Forward(r, q, Url("/tracks/:id", q.id), <<>>)

----------------------------------------------------------------------------
\* Requests a caller can make

Headers ==
  {Undefined, <<>>, <<"B", "e", "a", "r", "e", "r">>, BearerPrefix,
   <<"B", "a", "s", "i", "c", " ", "a">>, <<"b", "e", "a", "r", "e", "r", " ", "a">>}
  \cup {BearerPrefix \o t : t \in Tokens}
  \cup {BearerPrefix \o <<" ">> \o t : t \in Tokens}
  \cup {BearerPrefix \o t \o <<" ">> \o t : t \in Tokens}

Grants == {Undefined, <<>>} \cup Tokens

TimeRanges == {Undefined, <<>>, <<"bogus">>} \cup validTimeRanges

Markets == {Undefined, <<"GB">>}

Request(route, authorization, query, id) ==
  [route |-> route, authorization |-> authorization, query |-> query, id |-> id]

Requests(route) ==
  CASE route \in {"/auth/login", "/auth/logout", "/"} ->
         {Request(route, Undefined, NoQuery, Undefined)}
    [] route = "/auth/callback" ->
         {Request(route, Undefined, [NoQuery EXCEPT !.code = c], Undefined) : c \in Grants}
    [] route = "/auth/refresh_token" ->
         {Request(route, Undefined, [NoQuery EXCEPT !.refresh_token = c], Undefined) :
            c \in Grants}
    [] route \in {"/user/top-tracks", "/user/top-artists"} ->
         {Request(route, h, [NoQuery EXCEPT !.time_range = t], Undefined) :
            h \in Headers, t \in TimeRanges}
    [] route \in {"/artist/:id", "/track/:id"} ->
         {Request(route, h, NoQuery, i) : h \in Headers, i \in Ids}
    [] route = "/artist/:id/top-tracks" ->
         {Request(route, h, [NoQuery EXCEPT !.market = m], i) :
            h \in Headers, i \in Ids, m \in Markets}
    [] OTHER -> {Request(route, h, NoQuery, Undefined) : h \in Headers}

\* the requests of the concurrent specification: bearer headers only
ConcRequests(route) ==
  {q \in Requests(route) :
     /\ q.authorization \in {BearerPrefix} \cup {BearerPrefix \o t : t \in Tokens}
     /\ q.query.time_range = Undefined
     /\ q.query.market = Undefined
     /\ q.id \in {Undefined, <<"x">>}}

----------------------------------------------------------------------------
\* Specifications

\* one request at a time, over every input
Next ==
  \E r \in {1} :
    \/ \E q \in Requests("/auth/login") : AuthLogin(r, q)
    \/ \E q \in Requests("/auth/callback") : AuthCallback(r, q)
    \/ AuthCallbackResume(r)
    \/ \E q \in Requests("/auth/refresh_token") : AuthRefreshToken(r, q)
    \/ AuthRefreshTokenResume(r)
    \/ \E q \in Requests("/auth/logout") : AuthLogout(r, q)
    \/ \E q \in Requests("/") : Root(r, q)
    \/ \E q \in Requests("/user/profile") : UserProfile(r, q)
    \/ \E q \in Requests("/user/playlists") : UserPlaylists(r, q)
    \/ \E q \in Requests("/user/top-tracks") : UserTopTracks(r, q)
    \/ \E q \in Requests("/user/recently-played") : UserRecentlyPlayed(r, q)
    \/ \E q \in Requests("/user/top-artists") : UserTopArtists(r, q)
    \/ \E q \in Requests("/user/following") : UserFollowing(r, q)
    \/ \E q \in Requests("/artist/:id") : ArtistDetail(r, q)
    \/ \E q \in Requests("/artist/:id/top-tracks") : ArtistTopTracks(r, q)
    \/ \E q \in Requests("/track/:id") : TrackDetail(r, q)
    \/ Relay(r)

Spec == Init /\ [][Next]_vars

\* NReq protected requests in flight at once, their steps interleaved
NextConc ==
  \E r \in Slots :
    \/ \E q \in ConcRequests("/user/profile") : UserProfile(r, q)
    \/ \E q \in ConcRequests("/user/playlists") : UserPlaylists(r, q)
    \/ \E q \in ConcRequests("/user/top-tracks") : UserTopTracks(r, q)
    \/ \E q \in ConcRequests("/user/recently-played") : UserRecentlyPlayed(r, q)
    \/ \E q \in ConcRequests("/user/top-artists") : UserTopArtists(r, q)
    \/ \E q \in ConcRequests("/user/following") : UserFollowing(r, q)
    \/ \E q \in ConcRequests("/artist/:id") : ArtistDetail(r, q)
    \/ \E q \in ConcRequests("/artist/:id/top-tracks") : ArtistTopTracks(r, q)
    \/ \E q \in ConcRequests("/track/:id") : TrackDetail(r, q)
    \/ Relay(r)

SpecConc == Init /\ [][NextConc]_vars

----------------------------------------------------------------------------
\* Properties

Handled(r) == pc[r] # "idle"

CallsOf(r) == {c \in sent : c.slot = r}

Failure(rep) == rep.kind = "error" \/ rep.status < 200 \/ rep.status > 299

\* C1: a protected request without an Authorization header, or with one that
\* does not start with "Bearer ", is answered 401 and issues no upstream call.
C1_GateRejectsWithoutCall ==
  \A r \in Slots :
    (/\ Handled(r)
     /\ req[r].route \in ProtectedRoutes
     /\ (req[r].authorization = Undefined
           \/ ~StartsWith(req[r].authorization, BearerPrefix)))
    => /\ pc[r] = "done"
       /\ res[r].status = 401
       /\ CallsOf(r) = {}

C1_Witness ==
  \E r \in Slots :
    /\ pc[r] = "done"
    /\ req[r].route = "/track/:id"
    /\ req[r].authorization = <<"B", "a", "s", "i", "c", " ", "a">>
    /\ res[r].status = 401

\* C2: a valid authorization code, once the provider has answered its
\* exchange, yields a redirect to the client application whose query holds
\* non-empty access_token, refresh_token and expires_in.
C2_ValidCodeRedirectsWithTokens ==
  \A r \in Slots :
    (/\ pc[r] = "done"
     /\ req[r].route = "/auth/callback"
     /\ req[r].query.code \in ValidGrants
     /\ reply[r].kind = "response")
    => /\ res[r].kind = "redirect"
       /\ res[r].location.base = frontendUrl
       /\ \A k \in {"access_token", "refresh_token", "expires_in"} :
            /\ Param(res[r].location.query, k) # Undefined
            /\ Len(Param(res[r].location.query, k)) > 0
            /\ Param(res[r].location.query, k) = reply[r].data[k]

C2_Witness ==
  \E r \in Slots :
    /\ pc[r] = "done"
    /\ req[r].route = "/auth/callback"
    /\ req[r].query.code \in ValidGrants
    /\ reply[r].kind = "response"
    /\ res[r].kind = "redirect"

\* C3: a non-success answer of the token endpoint to a code exchange yields a
\* redirect to the client application with an error indicator and no tokens,
\* and the 500 failure is sent only when there was no answer at all.
C3_NonSuccessRedirectsWithError ==
  \A r \in Slots :
    (pc[r] = "done" /\ req[r].route = "/auth/callback" /\ CallsOf(r) # {})
    => /\ (reply[r].kind = "response" /\ reply[r].status # 200)
            => /\ res[r].kind = "redirect"
               /\ res[r].location.base = frontendUrl
               /\ Param(res[r].location.query, "error") # Undefined
               /\ Param(res[r].location.query, "access_token") = Undefined
               /\ Param(res[r].location.query, "refresh_token") = Undefined
       /\ res[r].status = 500 => reply[r].kind = "error"

\* C4: /auth/refresh_token with an absent or empty refresh_token is answered
\* 400 and issues no call to the token endpoint.
C4_MissingRefreshTokenIs400 ==
  \A r \in Slots :
    (/\ Handled(r)
     /\ req[r].route = "/auth/refresh_token"
     /\ req[r].query.refresh_token \in {Undefined, <<>>})
    => /\ pc[r] = "done"
       /\ res[r].status = 400
       /\ CallsOf(r) = {}

C4_Witness ==
  \E r \in Slots :
    /\ pc[r] = "done"
    /\ req[r].route = "/auth/refresh_token"
    /\ req[r].query.refresh_token = <<>>
    /\ res[r].status = 400

\* C5: /auth/callback with no code redirects to the client application root
\* with an empty query and performs no token exchange.
C5_NoCodeRedirectsToRoot ==
  \A r \in Slots :
    (/\ Handled(r)
     /\ req[r].route = "/auth/callback"
     /\ req[r].query.code \in {Undefined, <<>>})
    => /\ pc[r] = "done"
       /\ res[r].kind = "redirect"
       /\ res[r].location = [base |-> frontendUrl, query |-> <<>>]
       /\ CallsOf(r) = {}

C5_Witness ==
  \E r \in Slots :
    /\ pc[r] = "done"
    /\ req[r].route = "/auth/callback"
    /\ req[r].query.code = <<>>
    /\ res[r].kind = "redirect"

\* C6: on a protected route an upstream failure (no response, or a response
\* outside 2xx) is answered 500 with the route's fixed text, and nothing of
\* the upstream reply is in the answer.
C6_UpstreamFailureIsStatic500 ==
  \A r \in Slots :
    (/\ pc[r] = "done"
     /\ req[r].route \in ProtectedRoutes
     /\ CallsOf(r) # {}
     /\ Failure(reply[r]))
    => /\ res[r].status = 500
       /\ res[r].kind = "send"
       /\ res[r].text = FailMsg(req[r].route)
       /\ res[r].json = NoJson
       /\ res[r].location = NoLocation

C6_Witness ==
  \E r \in Slots :
    /\ pc[r] = "done"
    /\ req[r].route = "/artist/:id/top-tracks"
    /\ reply[r].kind = "response"
    /\ reply[r].status = 401
    /\ res[r].status = 500

\* the strings a response delivers to the browser: the values of a redirect's
\* query and the leaves of a JSON body (the texts of send are fixed literals)
JsonStrings(d) ==
  (IF "access_token" \in DOMAIN d THEN {d.access_token} ELSE {})
  \cup (IF "refresh_token" \in DOMAIN d THEN {d.refresh_token} ELSE {})
  \cup (IF "expires_in" \in DOMAIN d THEN {d.expires_in} ELSE {})
  \cup (IF "bearer" \in DOMAIN d THEN {d.bearer} ELSE {})
  \cup (IF "resource" \in DOMAIN d THEN {d.resource.id} ELSE {})
  \cup (IF "query" \in DOMAIN d THEN {d.query[i][2] : i \in 1..Len(d.query)} ELSE {})

Delivered(x) ==
  {x.location.query[i][2] : i \in 1..Len(x.location.query)}
  \cup (IF x.kind = "json" THEN JsonStrings(x.json) ELSE {})

\* the strings an upstream call carries
Carried(c) ==
  {c.authorization, c.url.id}
  \cup {c.query[i][2] : i \in 1..Len(c.query)}
  \cup {c.data[i][2] : i \in 1..Len(c.data)}

Credentials == {clientId, clientSecret, BasicAuthorization}

Holds(strings, secret) == \E v \in strings : Contains(v, secret)

\* C7 as stated: the client id and the client secret go only to the token
\* endpoint, as the basic-auth header, and are in nothing delivered to the
\* browser.
C7_CredentialsNeverExposed ==
  /\ \A c \in sent :
       (\E k \in Credentials : Holds(Carried(c), k))
       => /\ c.method = "post"
          /\ c.url.path = TokenUrl
          /\ \A k \in Credentials : ~Holds(Carried(c) \ {c.authorization}, k)
  /\ \A r \in Slots : \A k \in Credentials : ~Holds(Delivered(res[r]), k)

\* C7 amended: the client secret (alone or inside the basic-auth header) goes
\* only to the token endpoint, as the Authorization header of the POST, and is
\* in nothing delivered to the browser; the client id is delivered to the
\* browser by /auth/login only, as the client_id parameter of its redirect to
\* the provider's authorize URL, and by no other route.
C7_SecretNeverExposed ==
  /\ \A c \in sent :
       (\E k \in Credentials : Holds(Carried(c), k))
       => /\ c.method = "post"
          /\ c.url.path = TokenUrl
          /\ c.authorization = BasicAuthorization
          /\ \A k \in Credentials : ~Holds(Carried(c) \ {c.authorization}, k)
  /\ \A r \in Slots :
       /\ ~Holds(Delivered(res[r]), clientSecret)
       /\ ~Holds(Delivered(res[r]), BasicAuthorization)
       /\ Holds(Delivered(res[r]), clientId)
            => /\ req[r].route = "/auth/login"
               /\ res[r].kind = "redirect"
               /\ res[r].location.base = AuthorizeUrl
               /\ \A i \in 1..Len(res[r].location.query) :
                    Contains(res[r].location.query[i][2], clientId)
                    => res[r].location.query[i] = <<"client_id", clientId>>

C7_Witness ==
  /\ \E r \in Slots :
       /\ pc[r] = "done"
       /\ req[r].route = "/auth/login"
       /\ Param(res[r].location.query, "client_id") = clientId
       /\ ~Holds(Delivered(res[r]), clientSecret)

C7_WitnessExchange ==
  \E r \in Slots :
    /\ pc[r] = "done"
    /\ req[r].route = "/auth/callback"
    /\ \E c \in CallsOf(r) : c.authorization = BasicAuthorization
    /\ res[r].kind = "redirect"
    /\ Param(res[r].location.query, "access_token") = IssuedTokens.access_token
    /\ ~Holds(Delivered(res[r]), clientSecret)

TopRoutes == {"/user/top-tracks", "/user/top-artists"}

\* C8: the time_range of the upstream call of /user/top-tracks and
\* /user/top-artists is the caller's when that is short_term, medium_term or
\* long_term, and medium_term otherwise.
C8_TimeRangeForwarded ==
  \A c \in sent :
    req[c.slot].route \in TopRoutes
    => LET asked == req[c.slot].query.time_range
           fwd   == Param(c.query, "time_range")
       IN  /\ Len(c.query) = 1
           /\ fwd \in {<<"short_term">>, <<"medium_term">>, <<"long_term">>}
           /\ asked \in {<<"short_term">>, <<"medium_term">>, <<"long_term">>}
                => fwd = asked
           /\ asked \notin {<<"short_term">>, <<"medium_term">>, <<"long_term">>}
                => fwd = <<"medium_term">>

C8_Witness ==
  /\ \E c \in sent :
       /\ req[c.slot].route = "/user/top-tracks"
       /\ req[c.slot].query.time_range = <<"bogus">>
       /\ Param(c.query, "time_range") = <<"medium_term">>

C8_WitnessKept ==
  \E c \in sent :
    /\ req[c.slot].route = "/user/top-artists"
    /\ req[c.slot].query.time_range = <<"long_term">>
    /\ Param(c.query, "time_range") = <<"long_term">>

\* C9: the upstream call of /artist/:id/top-tracks has the query market=US,
\* whatever query the caller sent.
C9_MarketIsUS ==
  \A c \in sent :
    req[c.slot].route = "/artist/:id/top-tracks"
    => /\ c.query = <<<<"market", <<"US">>>>>>
       /\ c.url = [path |-> "/artists/:id/top-tracks", id |-> req[c.slot].id]

C9_Witness ==
  \E c \in sent :
    /\ req[c.slot].route = "/artist/:id/top-tracks"
    /\ req[c.slot].query.market = <<"GB">>
    /\ Param(c.query, "market") = <<"US">>

\* C10: with requests interleaved, every upstream GET carries a non-empty
\* bearer token taken from the Authorization header of the request it was
\* issued for, a header of exactly "Bearer " is answered with a failure and
\* no upstream call, and the JSON a request is answered with is the reply to
\* its own call.
C10_RequestScoped ==
  /\ \A c \in sent :
       c.method = "get"
       => \E t \in Tokens :
            /\ Len(t) > 0
            /\ c.authorization = BearerPrefix \o t
            /\ StartsWith(req[c.slot].authorization, BearerPrefix \o t)
            /\ accessToken[c.slot] = t
  /\ \A r \in Slots :
       /\ Cardinality(CallsOf(r)) <= 1
       /\ (Handled(r) /\ req[r].authorization = BearerPrefix)
            => /\ pc[r] = "done"
               /\ res[r].status \in {401, 500}
               /\ res[r].kind = "send"
               /\ CallsOf(r) = {}
       /\ (pc[r] = "done" /\ res[r].kind = "json")
            => \E c \in CallsOf(r) :
                 /\ reply[r] \in ResourceReplies(c)
                 /\ reply[r].status = 200
                 /\ res[r].json = reply[r].data
                 /\ res[r].json.bearer = BearerPrefix \o accessToken[r]
                 /\ res[r].json.resource = c.url

C10_Witness ==
  \E r1, r2 \in Slots :
    /\ r1 # r2
    /\ pc[r1] = "done" /\ pc[r2] = "done"
    /\ res[r1].kind = "json" /\ res[r2].kind = "json"
    /\ accessToken[r1] # accessToken[r2]
    /\ res[r1].json.bearer # res[r2].json.bearer

C10_WitnessEmpty ==
  \E r1, r2 \in Slots :
    /\ pc[r1] = "await"
    /\ pc[r2] = "done"
    /\ req[r2].authorization = BearerPrefix
    /\ res[r2].status = 500

====
